---- MODULE Spec2Model ----
(***************************************************************************)
(* Interaction and moderation layer of the fanwork archive:                *)
(*   server/auth.ts      bearer-token middlewares                          *)
(*   server/storage.ts   DatabaseStorage over the relational store         *)
(*   server/routes.ts    HTTP handlers calling the storage                 *)
(* Every await of a handler is a point where other requests run; each      *)
(* single SQL statement is atomic.                                         *)
(***************************************************************************)
EXTENDS Integers, Sequences, FiniteSets, TLC

VARIABLES users, fanworks, tags, fanworkTags, likes, bookmarks, comments, reports,
          serial, reqs, hist

vars == <<users, fanworks, tags, fanworkTags, likes, bookmarks, comments, reports,
          serial, reqs, hist>>

(***************************************************************************)
(* Bounds                                                                  *)
(***************************************************************************)
NumUsers == 2
NumCallers == 1
NumFanworks == 1
NumReqs == 2
MaxSerial == 2
MaxTime == 1
MaxRows == 3
NumReports == 1
MaxReports == 2
MaxFanworks == 2

UserIds == 1..NumUsers
\* the accounts that send requests in the access-control and toggle runs
CallerIds == 1..NumCallers
\* a token may name a user id that has no row
TokenUserIds == 1..(NumUsers + 1)
FanworkIds == 1..NumFanworks
\* a request path may name a fanwork id that has no row
PathFanworkIds == 1..(NumFanworks + 1)
ReqIds == 1..NumReqs
Times == 1..MaxTime
ReportIds == 1..NumReports
\* a review may name a report id that has no row
PathReportIds == 1..(NumReports + 1)

\* SQL NULL in a text column and in an integer column (serial ids start at 1)
NULL == "null"
NullId == 0
\* JavaScript undefined/null where a row or an object is expected
Undefined == [undefined |-> TRUE]
\* SQL NULL in a column whose text the code searches: text is a sequence of
\* characters
NullText == <<"NULL">>
\* no row with this primary key
NoRow == [norow |-> TRUE]

(***************************************************************************)
(* Schema: column values and the rows a fresh insert produces              *)
(***************************************************************************)
Roles == {"user", "moderator", "admin"}
BanReasons == {"spam"}

\* users table: defaults of the columns that access control reads
NewUser == [role |-> "user", isBanned |-> FALSE, banReason |-> NULL,
            bannedAt |-> NullId, bannedBy |-> NullId, ageVerified |-> FALSE,
            isActive |-> TRUE]

Tables == {"users", "fanworks", "tags", "likes", "bookmarks", "comments", "reports"}

Idle == [pc |-> "idle"]

\* hist records what the calls of a run returned; nothing is recorded at first
NoHist == [none |-> TRUE]

(***************************************************************************)
(* storage.ts: user operations                                             *)
(***************************************************************************)
\* select * from users where id = :id ; first row or undefined
getUserById(id) == IF id \in UserIds /\ users[id] /= NoRow THEN users[id] ELSE Undefined

\* update ... where id = :id touches nothing when no row matches
UpdateUserRow(userId, patch) ==
    IF userId \in UserIds /\ users[userId] /= NoRow
    THEN [users EXCEPT ![userId] = patch @@ @]
    ELSE users

\* insert into users: the serial primary key hands out 1, 2, ...
createUser(u) ==
    /\ u = serial.users + 1
    /\ users' = [users EXCEPT ![u] = NewUser]
    /\ serial' = [serial EXCEPT !.users = u]
    /\ UNCHANGED <<tags, fanworkTags, fanworks, likes, bookmarks, comments, reports, reqs, hist>>

updateUser(u, active) ==
    /\ users[u] /= NoRow
    /\ users[u].isActive /= active
    /\ users' = UpdateUserRow(u, [isActive |-> active])
    /\ UNCHANGED <<tags, fanworkTags, fanworks, likes, bookmarks, comments, reports, serial, reqs, hist>>

banUser(u, data) ==
    /\ users[u] /= NoRow
    /\ users' = UpdateUserRow(u, [isBanned |-> TRUE, banReason |-> data.banReason,
                                  bannedBy |-> data.bannedBy, bannedAt |-> data.bannedAt])
    /\ users' /= users
    /\ UNCHANGED <<tags, fanworkTags, fanworks, likes, bookmarks, comments, reports, serial, reqs, hist>>

unbanUser(u) ==
    /\ users[u] /= NoRow
    /\ users' = UpdateUserRow(u, [isBanned |-> FALSE, banReason |-> NULL,
                                  bannedBy |-> NullId, bannedAt |-> NullId])
    /\ users' /= users
    /\ UNCHANGED <<tags, fanworkTags, fanworks, likes, bookmarks, comments, reports, serial, reqs, hist>>

updateUserRole(u, role) ==
    /\ users[u] /= NoRow
    /\ users[u].role /= role
    /\ users' = UpdateUserRow(u, [role |-> role])
    /\ UNCHANGED <<tags, fanworkTags, fanworks, likes, bookmarks, comments, reports, serial, reqs, hist>>

verifyUserAge(u) ==
    /\ users[u] /= NoRow
    /\ ~users[u].ageVerified
    /\ users' = UpdateUserRow(u, [ageVerified |-> TRUE])
    /\ UNCHANGED <<tags, fanworkTags, fanworks, likes, bookmarks, comments, reports, serial, reqs, hist>>

(***************************************************************************)
(* auth.ts: tokens and middlewares                                         *)
(***************************************************************************)
\* the Authorization header after split(' '): absent, scheme only, scheme + token
BadToken == <<"expired">>
NoToken == <<>>
Jwt(u) == <<"jwt", u>>
Tokens == {BadToken} \cup {Jwt(u) : u \in TokenUserIds}
NoHeader == <<>>
Headers == {NoHeader, <<"Bearer">>} \cup {<<"Bearer", t>> : t \in Tokens}

\* authHeader && authHeader.split(' ')[1]
HeaderToken(h) == IF Len(h) >= 2 THEN h[2] ELSE NoToken

verifyToken(token) == IF token \in {Jwt(u) : u \in TokenUserIds}
                      THEN [userId |-> token[2]] ELSE Undefined

Reply(code, msg) == [status |-> code, message |-> msg, next |-> FALSE, user |-> NullId]
Pass(id) == [status |-> 0, message |-> NULL, next |-> TRUE, user |-> id]

\* the part of every middleware up to the user lookup
Credential(h) ==
    LET token == HeaderToken(h) IN
    IF token = NoToken THEN Reply(401, "Access token required")
    ELSE LET decoded == verifyToken(token) IN
         IF decoded = Undefined THEN Reply(401, "Invalid or expired token")
         ELSE LET user == getUserById(decoded.userId) IN
              IF user = Undefined \/ ~user.isActive
              THEN Reply(401, "User not found or inactive")
              ELSE Pass(decoded.userId)

\* authenticateToken without the isActive test
authenticateTokenAnyUser(h) ==
    LET token == HeaderToken(h) IN
    IF token = NoToken THEN Reply(401, "Access token required")
    ELSE LET decoded == verifyToken(token) IN
         IF decoded = Undefined THEN Reply(401, "Invalid or expired token")
         ELSE IF getUserById(decoded.userId) = Undefined
              THEN Reply(401, "User not found or inactive")
              ELSE Pass(decoded.userId)

authenticateToken(h) == Credential(h)

\* requireModerator with the role test moved before the ban test
requireModeratorRoleFirst(h) ==
    LET c == Credential(h) IN
    IF ~c.next THEN c
    ELSE LET user == getUserById(c.user) IN
         IF user.role /= "moderator" /\ user.role /= "admin"
         THEN Reply(403, "Moderator access required")
         ELSE IF user.isBanned THEN Reply(403, "Account banned")
              ELSE Pass(c.user)

requireModerator(h) ==
    LET c == Credential(h) IN
    IF ~c.next THEN c
    ELSE LET user == getUserById(c.user) IN
         IF user.isBanned THEN Reply(403, "Account banned")
         ELSE IF user.role /= "moderator" /\ user.role /= "admin"
              THEN Reply(403, "Moderator access required")
              ELSE Pass(c.user)

\* requireAdmin that lets moderators through as well
requireAdminOrModerator(h) ==
    LET c == Credential(h) IN
    IF ~c.next THEN c
    ELSE LET user == getUserById(c.user) IN
         IF user.isBanned THEN Reply(403, "Account banned")
         ELSE IF user.role /= "admin" /\ user.role /= "moderator"
              THEN Reply(403, "Admin access required")
              ELSE Pass(c.user)

\* requireAdmin without the ban test
requireAdminNoBan(h) ==
    LET c == Credential(h) IN
    IF ~c.next THEN c
    ELSE LET user == getUserById(c.user) IN
         IF user.role /= "admin"
         THEN Reply(403, "Admin access required")
         ELSE Pass(c.user)

requireAdmin(h) ==
    LET c == Credential(h) IN
    IF ~c.next THEN c
    ELSE LET user == getUserById(c.user) IN
         IF user.isBanned THEN Reply(403, "Account banned")
         ELSE IF user.role /= "admin"
              THEN Reply(403, "Admin access required")
              ELSE Pass(c.user)

\* requireAgeVerification that lets administrators through unverified
requireAgeVerificationStaffExempt(h) ==
    LET c == Credential(h) IN
    IF ~c.next THEN c
    ELSE LET user == getUserById(c.user) IN
         IF user.isBanned THEN Reply(403, "Account banned")
         ELSE IF ~user.ageVerified /\ user.role /= "admin"
              THEN Reply(403, "Age verification required for 18+ content")
              ELSE Pass(c.user)

requireAgeVerification(h) ==
    LET c == Credential(h) IN
    IF ~c.next THEN c
    ELSE LET user == getUserById(c.user) IN
         IF user.isBanned THEN Reply(403, "Account banned")
         ELSE IF ~user.ageVerified
              THEN Reply(403, "Age verification required for 18+ content")
              ELSE Pass(c.user)

\* optionalAuth never rejects: req.user is set when the token names an active user
optionalAuth(h) ==
    LET c == Credential(h) IN IF c.next THEN c ELSE Pass(NullId)

Gated == {"requireModerator", "requireAdmin", "requireAgeVerification"}

RunMiddleware(mw, h) ==
    CASE mw = "requireModerator" -> requireModerator(h)
      [] mw = "requireAdmin" -> requireAdmin(h)
      [] mw = "requireAgeVerification" -> requireAgeVerification(h)
      [] mw = "authenticateToken" -> authenticateToken(h)
      [] OTHER -> optionalAuth(h)

\* a gate that trusts a valid token and does not look at the user row
GateTrustingToken(r, mw, h) ==
    /\ reqs[r].pc = "idle"
    /\ reqs' = [reqs EXCEPT ![r] =
                  [pc |-> "gated", mw |-> mw, header |-> h,
                   row |-> IF verifyToken(HeaderToken(h)) = Undefined THEN Undefined
                           ELSE getUserById(verifyToken(HeaderToken(h)).userId),
                   out |-> IF verifyToken(HeaderToken(h)) = Undefined
                           THEN RunMiddleware(mw, h)
                           ELSE Pass(verifyToken(HeaderToken(h)).userId)]]
    /\ UNCHANGED <<tags, fanworkTags, users, fanworks, likes, bookmarks, comments, reports, serial, hist>>

\* a request enters a gated middleware; the user row is read once (the only await)
Gate(r, mw, h) ==
    /\ reqs[r].pc = "idle"
    /\ reqs' = [reqs EXCEPT ![r] =
                  [pc |-> "gated", mw |-> mw, header |-> h,
                   row |-> IF verifyToken(HeaderToken(h)) = Undefined THEN Undefined
                           ELSE getUserById(verifyToken(HeaderToken(h)).userId),
                   out |-> RunMiddleware(mw, h)]]
    /\ UNCHANGED <<tags, fanworkTags, users, fanworks, likes, bookmarks, comments, reports, serial, hist>>

\* a request enters authenticateToken; the user row is read once (the only await)
Authenticate(r, h) ==
    /\ reqs[r].pc = "idle"
    /\ reqs' = [reqs EXCEPT ![r] =
                  [pc |-> "authenticated", mw |-> "authenticateToken", header |-> h,
                   row |-> IF verifyToken(HeaderToken(h)) = Undefined THEN Undefined
                           ELSE getUserById(verifyToken(HeaderToken(h)).userId),
                   out |-> RunMiddleware("authenticateToken", h)]]
    /\ UNCHANGED <<tags, fanworkTags, users, fanworks, likes, bookmarks, comments, reports, serial, hist>>

\* the response is sent (or the downstream handler has run) and the request ends
Finish(r) ==
    /\ reqs[r].pc \in {"gated", "authenticated", "done"}
    /\ reqs' = [reqs EXCEPT ![r] = Idle]
    /\ UNCHANGED <<tags, fanworkTags, users, fanworks, likes, bookmarks, comments, reports, serial, hist>>

(***************************************************************************)
(* storage.ts: fanworks and their moderation                               *)
(***************************************************************************)
FanworkTypes == {"artwork", "fanfiction", "comic"}
Ratings == {"all-ages", "teen", "mature", "explicit"}

\* the row insert into fanworks produces; createdAt is the position of the
\* insert in the order of inserts
NewFanwork(id, data) ==
    [authorId |-> data.authorId, type |-> data.type, rating |-> data.rating,
     title |-> data.title, description |-> data.description,
     isHidden |-> FALSE, moderationReason |-> NULL, moderatedAt |-> NullId,
     moderatedBy |-> NullId, isReported |-> FALSE, reportCount |-> 0,
     createdAt |-> id]

\* select * from fanworks where id = :id ; first row or undefined
getFanwork(id) ==
    IF id \in DOMAIN fanworks /\ fanworks[id] /= NoRow THEN fanworks[id] ELSE Undefined

UpdateFanworkRow(fanworkId, patch) ==
    IF fanworkId \in DOMAIN fanworks /\ fanworks[fanworkId] /= NoRow
    THEN [fanworks EXCEPT ![fanworkId] = patch @@ @]
    ELSE fanworks

Lower(c) == CASE c = "A" -> "a" [] c = "B" -> "b" [] OTHER -> c

\* text ILIKE '%' || s || '%': s occurs in text, letter case ignored; NULL
\* matches nothing
ILike(text, s) ==
    /\ text /= NullText
    /\ \E i \in 0..(Len(text) - Len(s)) :
          \A j \in 1..Len(s) : Lower(text[i + j]) = Lower(s[j])

\* parseInt of the authorId query parameter, a numeral
parseInt(numeral) == numeral[1]

NoFilters == [type |-> <<>>, rating |-> <<>>, tags |-> <<>>, search |-> <<>>,
              authorId |-> <<>>, limit |-> 0, offset |-> 0]

InArray(x, list) == \E i \in 1..Len(list) : list[i] = x

DefaultLimit == 20

\* the where clause: the conditions pushed in the order type, rating, search,
\* author and joined by "and"; the search condition is "title ilike .. or
\* description ilike .." without parentheses of its own, and SQL's "and" binds
\* tighter than its "or"
Where(row, filters) ==
    LET typeOk == Len(filters.type) = 0 \/ InArray(row.type, filters.type)
        ratingOk == Len(filters.rating) = 0 \/ InArray(row.rating, filters.rating)
        authorOk == Len(filters.authorId) = 0 \/ row.authorId = parseInt(filters.authorId)
    IN IF Len(filters.search) = 0
       THEN typeOk /\ ratingOk /\ authorOk
       ELSE \/ typeOk /\ ratingOk /\ ILike(row.title, filters.search)
            \/ ILike(row.description, filters.search) /\ authorOk

RECURSIVE OrderByCreatedAtDesc(_)
OrderByCreatedAtDesc(ids) ==
    IF ids = {} THEN <<>>
    ELSE LET first == CHOOSE f \in ids :
                          \A g \in ids : fanworks[g].createdAt <= fanworks[f].createdAt
         IN <<first>> \o OrderByCreatedAtDesc(ids \ {first})

Page(seq, limit, offset) ==
    LET lim == IF limit = 0 THEN DefaultLimit ELSE limit
        last == IF Len(seq) < offset + lim THEN Len(seq) ELSE offset + lim
    IN SubSeq(seq, offset + 1, last)

\* select * from fanworks where .. order by created_at desc limit .. offset ..
\* (the ids of the rows, in order)
getFanworks(filters) ==
    Page(OrderByCreatedAtDesc({f \in FanworkIds :
            fanworks[f] /= NoRow /\ Where(fanworks[f], filters)}),
         filters.limit, filters.offset)

\* select tags.* from fanwork_tags join tags on tag_id = tags.id where
\* fanwork_id = :id (the names of the rows)
getFanworkTags(fanworkId) ==
    {t.name : t \in {t \in tags : \E ft \in fanworkTags :
                                     ft.fanworkId = fanworkId /\ ft.tagId = t.id}}

\* GET /api/fanworks: one whole call of getFanworks with the filters of the query
ListCall(filters) ==
    /\ hist' = [filters |-> filters, result |-> getFanworks(filters)]
    /\ UNCHANGED <<users, fanworks, tags, fanworkTags, likes, bookmarks, comments,
                   reports, serial, reqs>>

\* author_id references users(id)
createFanwork(f, data) ==
    /\ f = serial.fanworks + 1
    /\ getUserById(data.authorId) /= Undefined
    /\ fanworks' = [fanworks EXCEPT ![f] = NewFanwork(f, data)]
    /\ serial' = [serial EXCEPT !.fanworks = f]
    /\ UNCHANGED <<tags, fanworkTags, users, likes, bookmarks, comments, reports, reqs, hist>>

hideFanwork(f, data) ==
    /\ fanworks' = UpdateFanworkRow(f, [isHidden |-> TRUE,
                                        moderationReason |-> data.moderationReason,
                                        moderatedBy |-> data.moderatedBy,
                                        moderatedAt |-> data.moderatedAt])
    /\ fanworks' /= fanworks
    /\ UNCHANGED <<tags, fanworkTags, users, likes, bookmarks, comments, reports, serial, reqs, hist>>

unhideFanwork(f) ==
    /\ fanworks' = UpdateFanworkRow(f, [isHidden |-> FALSE, moderationReason |-> NULL,
                                        moderatedBy |-> NullId, moderatedAt |-> NullId])
    /\ fanworks' /= fanworks
    /\ UNCHANGED <<tags, fanworkTags, users, likes, bookmarks, comments, reports, serial, reqs, hist>>

(***************************************************************************)
(* storage.ts: likes and bookmarks.  Both tables have a serial primary key *)
(* and no other key, so a table is a set of rows [id, userId, fanworkId].  *)
(***************************************************************************)
Kinds == {"like", "bookmark"}
TableOf(kind) == IF kind = "like" THEN "likes" ELSE "bookmarks"
\* every statement reading and writing the likes table
RowsOfLikes(kind) == likes

RowsOf(kind) == IF kind = "like" THEN likes ELSE bookmarks

\* select ... where user_id = :u and fanwork_id = :f
Matching(rows, userId, fanworkId) ==
    {row \in rows : row.userId = userId /\ row.fanworkId = fanworkId}

\* const [existing] = await db.select()... ; if (existing)
Existing(kind, userId, fanworkId) == Matching(RowsOf(kind), userId, fanworkId) /= {}

isLiked(userId, fanworkId) == Existing("like", userId, fanworkId)
isBookmarked(userId, fanworkId) == Existing("bookmark", userId, fanworkId)

\* user_id references users(id), fanwork_id references fanworks(id)
ForeignKeysHold(userId, fanworkId) ==
    getUserById(userId) /= Undefined /\ getFanwork(fanworkId) /= Undefined

\* delete ... where user_id = :u and fanwork_id = :f removes every matching row
DeleteMatching(rows, userId, fanworkId) == rows \ Matching(rows, userId, fanworkId)

InsertRow(rows, id, userId, fanworkId) ==
    rows \cup {[id |-> id, userId |-> userId, fanworkId |-> fanworkId]}

\* the second statement of toggleLike / toggleBookmark, given what the first
\* one found: the tables after it and what the call returns ("throw" when the
\* insert violates a foreign key)
ToggleWrite(kind, userId, fanworkId, existing) ==
    LET t == TableOf(kind)
        rows == RowsOf(kind)
        after ==
            IF existing THEN DeleteMatching(rows, userId, fanworkId)
            ELSE IF ForeignKeysHold(userId, fanworkId)
                 THEN InsertRow(rows, serial[t] + 1, userId, fanworkId)
                 ELSE rows
    IN [rows |-> after,
        serial |-> IF ~existing /\ ForeignKeysHold(userId, fanworkId)
                   THEN [serial EXCEPT ![t] = @ + 1] ELSE serial,
        returns |-> IF existing THEN "false"
                    ELSE IF ForeignKeysHold(userId, fanworkId) THEN "true" ELSE "throw"]

\* the serial counters are capped: an insert waits while its table is at the cap
CanWrite(kind, existing) == existing \/ serial[TableOf(kind)] < MaxSerial

\* one whole call of toggleLike / toggleBookmark with no other call in between.
\* A run exercises one of the two relations (hist.kind); hist counts the calls
\* of each (user, fanwork) that returned and keeps the last outcome
ToggleCall(kind, userId, fanworkId) ==
    LET existing == Existing(kind, userId, fanworkId)
        w == ToggleWrite(kind, userId, fanworkId, existing) IN
    /\ hist.kind = kind
    /\ CanWrite(kind, existing)
    /\ likes' = IF kind = "like" THEN w.rows ELSE likes
    /\ bookmarks' = IF kind = "bookmark" THEN w.rows ELSE bookmarks
    /\ serial' = w.serial
    /\ hist' = [kind |-> kind,
                calls |-> [hist.calls EXCEPT ![<<userId, fanworkId>>] =
                             IF w.returns = "throw" THEN @ ELSE @ + 1],
                ret |-> [hist.ret EXCEPT ![<<userId, fanworkId>>] = w.returns]]
    /\ UNCHANGED <<tags, fanworkTags, users, fanworks, comments, reports, reqs>>

toggleLike(userId, fanworkId) == ToggleCall("like", userId, fanworkId)

toggleBookmark(userId, fanworkId) == ToggleCall("bookmark", userId, fanworkId)

(***************************************************************************)
(* storage.ts: comments and the counts of a fanwork                        *)
(***************************************************************************)
\* a count over the whole table, the fanwork_id condition dropped
CountAllRows(rows, fanworkId) == Cardinality(rows)

\* select count(*) from <table> where fanwork_id = :f
CountRows(rows, fanworkId) == Cardinality({row \in rows : row.fanworkId = fanworkId})

\* x || 0
OrZero(x) == IF x = 0 THEN 0 ELSE x

\* three selects, one after the other
getFanworkCounts(fanworkId) ==
    [likes |-> OrZero(CountRows(likes, fanworkId)),
     comments |-> OrZero(CountRows(comments, fanworkId)),
     bookmarks |-> OrZero(CountRows(bookmarks, fanworkId))]

\* GET /api/fanworks/:id/counts with no writer between the three selects
GetCounts(fanworkId) ==
    /\ hist' = [hist EXCEPT !.result = [fanworkId |-> fanworkId,
                                        counts |-> getFanworkCounts(fanworkId)]]
    /\ UNCHANGED <<tags, fanworkTags, users, fanworks, likes, bookmarks, comments, reports, serial, reqs>>

(***************************************************************************)
(* storage.ts: reports                                                     *)
(***************************************************************************)
Statuses == {"pending", "reviewed", "resolved", "dismissed"}
Terminal == {"reviewed", "resolved", "dismissed"}
ModerationActions == {"hide_content", "no_action"}

\* the columns insertReportSchema omits, with the defaults of the table
ReportDefaults == [status |-> "pending", reviewedBy |-> NullId, reviewedAt |-> NullId,
                   moderationAction |-> NULL]

\* an inserted report whose omitted columns are those of a finished review
NewReportReviewed(data) ==
    data @@ [status |-> "reviewed", reviewedBy |-> data.reporterId,
             reviewedAt |-> NullId, moderationAction |-> "no_action"]

\* the row insert into reports produces: the values given, the table's defaults
\* for the columns not given
NewReport(data) == data @@ ReportDefaults

\* the foreign keys of reports: reporter_id, fanwork_id, comment_id, user_id
ReportKeysHold(data) ==
    /\ getUserById(data.reporterId) /= Undefined
    /\ data.fanworkId = NullId \/ getFanwork(data.fanworkId) /= Undefined
    /\ data.commentId = NullId \/ \E c \in comments : c.id = data.commentId
    /\ data.userId = NullId \/ getUserById(data.userId) /= Undefined

\* createReport that also counts the report on the reported fanwork
createReportCounting(i, data) ==
    /\ i = serial.reports + 1
    /\ i \in DOMAIN reports
    /\ ReportKeysHold(data)
    /\ reports' = [reports EXCEPT ![i] = NewReport(data)]
    /\ serial' = [serial EXCEPT !.reports = i]
    /\ fanworks' = UpdateFanworkRow(data.fanworkId,
                       [isReported |-> TRUE,
                        reportCount |-> IF getFanwork(data.fanworkId) = Undefined THEN 0
                                        ELSE getFanwork(data.fanworkId).reportCount + 1])
    /\ UNCHANGED <<tags, fanworkTags, users, likes, bookmarks, comments, reqs, hist>>

createReport(i, data) ==
    /\ i = serial.reports + 1
    /\ i \in DOMAIN reports
    /\ ReportKeysHold(data)
    /\ reports' = [reports EXCEPT ![i] = NewReport(data)]
    /\ serial' = [serial EXCEPT !.reports = i]
    /\ UNCHANGED <<tags, fanworkTags, users, fanworks, likes, bookmarks, comments, reqs, hist>>

\* an update that writes the status and drops the other columns of data
UpdateReportRowStatusOnly(id, data) ==
    IF id \in ReportIds /\ reports[id] /= NoRow
    THEN [reports |-> [reports EXCEPT ![id].status = data.status],
          returns |-> [reports[id] EXCEPT !.status = data.status]]
    ELSE [reports |-> reports, returns |-> Undefined]

\* an update that inserts the row when none matches
UpdateReportRowUpsert(id, data) ==
    IF id \in ReportIds
    THEN LET old == IF reports[id] /= NoRow THEN reports[id]
                    ELSE NewReport([reporterId |-> data.reviewedBy, fanworkId |-> NullId,
                                    commentId |-> NullId, userId |-> NullId,
                                    reason |-> "spam", description |-> NULL])
         IN [reports |-> [reports EXCEPT ![id] = data @@ old],
             returns |-> data @@ old]
    ELSE [reports |-> reports, returns |-> Undefined]

\* update reports set <data> where id = :id returning * ; first row or undefined
UpdateReportRow(id, data) ==
    IF id \in ReportIds /\ reports[id] /= NoRow
    THEN [reports |-> [reports EXCEPT ![id] = data @@ @],
          returns |-> data @@ reports[id]]
    ELSE [reports |-> reports, returns |-> Undefined]

\* a reviewer sends a review of report id; the statement has not run yet
ReviewIssue(r, id, data) ==
    /\ reqs[r].pc = "idle"
    /\ reqs' = [reqs EXCEPT ![r] =
                  [pc |-> "issued", id |-> id, data |-> data,
                   sawPending |-> id \in ReportIds /\ reports[id] /= NoRow
                                  /\ reports[id].status = "pending"]]
    /\ UNCHANGED <<tags, fanworkTags, users, fanworks, likes, bookmarks, comments, reports, serial, hist>>

\* updateReport runs: one update statement; ranPending records the status the
\* statement found, which the statement itself never reads
updateReport(r) ==
    /\ reqs[r].pc = "issued"
    /\ LET q == reqs[r]
           w == UpdateReportRow(q.id, q.data) IN
       /\ reports' = w.reports
       /\ reqs' = [reqs EXCEPT ![r] =
                     [pc |-> "done", id |-> q.id, data |-> q.data,
                      sawPending |-> q.sawPending,
                      ranPending |-> q.id \in ReportIds /\ reports[q.id] /= NoRow
                                     /\ reports[q.id].status = "pending",
                      returns |-> w.returns]]
    /\ UNCHANGED <<tags, fanworkTags, users, fanworks, likes, bookmarks, comments, serial, hist>>

(***************************************************************************)
(* storage.ts: the moderation calls, each one whole call.  hist keeps the  *)
(* name of the last call, its arguments and the row it returned.           *)
(***************************************************************************)
NoCall == [op |-> "none", target |-> NullId, data |-> Undefined, returns |-> Undefined]

\* the first row of "returning", undefined when the update matched no row
FirstRow(table, ids, id) ==
    IF id \in ids /\ table[id] /= NoRow THEN table[id] ELSE Undefined

\* banUser that also hides the fanworks of the banned user
BanCallHidingWorks(u, data) ==
    /\ LET new == UpdateUserRow(u, [isBanned |-> TRUE, banReason |-> data.banReason,
                                    bannedBy |-> data.bannedBy,
                                    bannedAt |-> data.bannedAt]) IN
       /\ users' = new
       /\ hist' = [op |-> "banUser", target |-> u, data |-> data,
                   returns |-> FirstRow(new, UserIds, u)]
    /\ fanworks' = [f \in FanworkIds |->
                      IF fanworks[f] /= NoRow /\ fanworks[f].authorId = u
                      THEN [fanworks[f] EXCEPT !.isHidden = TRUE] ELSE fanworks[f]]
    /\ UNCHANGED <<tags, fanworkTags, likes, bookmarks, comments, reports, serial, reqs>>

\* banUser(userId, data), for any userId
BanCall(u, data) ==
    /\ LET new == UpdateUserRow(u, [isBanned |-> TRUE, banReason |-> data.banReason,
                                    bannedBy |-> data.bannedBy,
                                    bannedAt |-> data.bannedAt]) IN
       /\ users' = new
       /\ hist' = [op |-> "banUser", target |-> u, data |-> data,
                   returns |-> FirstRow(new, UserIds, u)]
    /\ UNCHANGED <<tags, fanworkTags, fanworks, likes, bookmarks, comments, reports, serial, reqs>>

\* unbanUser that clears the flag and keeps the record of the ban
UnbanCallKeepingRecord(u) ==
    /\ LET new == UpdateUserRow(u, [isBanned |-> FALSE]) IN
       /\ users' = new
       /\ hist' = [op |-> "unbanUser", target |-> u, data |-> Undefined,
                   returns |-> FirstRow(new, UserIds, u)]
    /\ UNCHANGED <<tags, fanworkTags, fanworks, likes, bookmarks, comments, reports, serial, reqs>>

\* unbanUser(userId), for any userId
UnbanCall(u) ==
    /\ LET new == UpdateUserRow(u, [isBanned |-> FALSE, banReason |-> NULL,
                                    bannedBy |-> NullId, bannedAt |-> NullId]) IN
       /\ users' = new
       /\ hist' = [op |-> "unbanUser", target |-> u, data |-> Undefined,
                   returns |-> FirstRow(new, UserIds, u)]
    /\ UNCHANGED <<tags, fanworkTags, fanworks, likes, bookmarks, comments, reports, serial, reqs>>

\* hideFanwork(fanworkId, data), for any fanworkId
HideCall(f, data) ==
    /\ LET new == UpdateFanworkRow(f, [isHidden |-> TRUE,
                                       moderationReason |-> data.moderationReason,
                                       moderatedBy |-> data.moderatedBy,
                                       moderatedAt |-> data.moderatedAt]) IN
       /\ fanworks' = new
       /\ hist' = [op |-> "hideFanwork", target |-> f, data |-> data,
                   returns |-> FirstRow(new, FanworkIds, f)]
    /\ UNCHANGED <<tags, fanworkTags, users, likes, bookmarks, comments, reports, serial, reqs>>

\* unhideFanwork(fanworkId), for any fanworkId
UnhideCall(f) ==
    /\ LET new == UpdateFanworkRow(f, [isHidden |-> FALSE, moderationReason |-> NULL,
                                       moderatedBy |-> NullId,
                                       moderatedAt |-> NullId]) IN
       /\ fanworks' = new
       /\ hist' = [op |-> "unhideFanwork", target |-> f, data |-> Undefined,
                   returns |-> FirstRow(new, FanworkIds, f)]
    /\ UNCHANGED <<tags, fanworkTags, users, likes, bookmarks, comments, reports, serial, reqs>>

\* updateReport(id, data), for any id
ReviewCall(id, data) ==
    /\ LET w == UpdateReportRow(id, data) IN
       /\ reports' = w.reports
       /\ hist' = [op |-> "updateReport", target |-> id, data |-> data,
                   returns |-> w.returns]
    /\ UNCHANGED <<tags, fanworkTags, users, fanworks, likes, bookmarks, comments, serial, reqs>>

\* the review handler, PATCH /api/admin/reports/:id: the reviewer is the caller,
\* the review time is the time of the call
reviewReport(id, reviewerId, newStatus, action, now) ==
    ReviewCall(id, [status |-> newStatus, moderationAction |-> action,
                    reviewedBy |-> reviewerId, reviewedAt |-> now])

\* what a moderation handler answers for the row its storage call returned
Outcome(returns) == IF returns = Undefined THEN "NotFound" ELSE "ok"

(***************************************************************************)
(* routes: GET /api/fanworks and GET /api/fanworks/:id                     *)
(***************************************************************************)
\* optionalAuth, the first await of the request; arg is the filters of a list
\* request and the id of a single read
BrowseAuth(r, op, h, arg) ==
    /\ reqs[r].pc = "idle"
    /\ reqs' = [reqs EXCEPT ![r] =
                  [pc |-> "browsing", op |-> op, user |-> optionalAuth(h).user,
                   arg |-> arg]]
    /\ UNCHANGED <<tags, fanworkTags, users, fanworks, likes, bookmarks, comments, reports, serial, hist>>

\* storage.getFanworks(filters); res.json(fanworks)
BrowseList(r) ==
    /\ reqs[r].pc = "browsing" /\ reqs[r].op = "list"
    /\ reqs' = [reqs EXCEPT ![r] =
                  [pc |-> "done", op |-> "list", user |-> @.user, arg |-> @.arg,
                   status |-> 200, body |-> getFanworks(@.arg)]]
    /\ UNCHANGED <<tags, fanworkTags, users, fanworks, likes, bookmarks, comments, reports, serial, hist>>

\* storage.getFanwork(id); 404 when there is no row, else res.json(fanwork)
BrowseOne(r) ==
    /\ reqs[r].pc = "browsing" /\ reqs[r].op = "one"
    /\ reqs' = [reqs EXCEPT ![r] =
                  [pc |-> "done", op |-> "one", user |-> @.user, arg |-> @.arg,
                   status |-> IF getFanwork(@.arg) = Undefined THEN 404 ELSE 200,
                   body |-> IF getFanwork(@.arg) = Undefined THEN <<>> ELSE <<@.arg>>]]
    /\ UNCHANGED <<tags, fanworkTags, users, fanworks, likes, bookmarks, comments, reports, serial, hist>>

(***************************************************************************)
(* routes: POST /api/fanworks/:id/like and /bookmark                       *)
(***************************************************************************)
\* authenticateToken, the first await of the request
ToggleAuth(r, kind, h, f) ==
    /\ reqs[r].pc = "idle"
    /\ LET a == authenticateToken(h) IN
       reqs' = [reqs EXCEPT ![r] =
                  IF a.next
                  THEN [pc |-> "authed", kind |-> kind, user |-> a.user, fanworkId |-> f,
                        banned |-> getUserById(a.user).isBanned]
                  ELSE [pc |-> "done", kind |-> kind, user |-> NullId, fanworkId |-> f,
                        banned |-> FALSE, status |-> a.status, body |-> a.message,
                        wrote |-> FALSE]]
    /\ UNCHANGED <<tags, fanworkTags, users, fanworks, likes, bookmarks, comments, reports, serial, hist>>

\* the select of toggleLike / toggleBookmark
ToggleSelect(r) ==
    /\ reqs[r].pc = "authed"
    /\ reqs' = [reqs EXCEPT ![r] =
                  [pc |-> "selected", kind |-> @.kind, user |-> @.user,
                   fanworkId |-> @.fanworkId, banned |-> @.banned,
                   existing |-> Existing(@.kind, @.user, @.fanworkId)]]
    /\ UNCHANGED <<tags, fanworkTags, users, fanworks, likes, bookmarks, comments, reports, serial, hist>>

\* the delete or insert of toggleLike / toggleBookmark and the response
ToggleFinish(r) ==
    /\ reqs[r].pc = "selected"
    /\ CanWrite(reqs[r].kind, reqs[r].existing)
    /\ LET q == reqs[r]
           w == ToggleWrite(q.kind, q.user, q.fanworkId, q.existing) IN
       /\ likes' = IF q.kind = "like" THEN w.rows ELSE likes
       /\ bookmarks' = IF q.kind = "bookmark" THEN w.rows ELSE bookmarks
       /\ serial' = w.serial
       /\ reqs' = [reqs EXCEPT ![r] =
                     [pc |-> "done", kind |-> q.kind, user |-> q.user,
                      fanworkId |-> q.fanworkId, banned |-> q.banned,
                      status |-> IF w.returns = "throw" THEN 500 ELSE 200,
                      body |-> IF w.returns = "throw" THEN "Failed to toggle"
                               ELSE w.returns,
                      wrote |-> w.rows /= RowsOf(q.kind)]]
    /\ UNCHANGED <<tags, fanworkTags, users, fanworks, comments, reports, hist>>

InitEmpty ==
    /\ users = [u \in UserIds |-> NoRow]
    /\ fanworks = [f \in FanworkIds |-> NoRow]
    /\ likes = {}
    /\ bookmarks = {}
    /\ comments = {}
    /\ reports = [i \in ReportIds |-> NoRow]
    /\ serial = [t \in Tables |-> 0]
    /\ reqs = [r \in ReqIds |-> Idle]
    /\ tags = {}
    /\ fanworkTags = {}
    /\ hist = NoHist

BanData == [banReason : BanReasons, bannedBy : {1}, bannedAt : Times]

\* the access-control runs use one request slot: a middleware has a single await
AuthReqs == {r \in ReqIds : \A q \in ReqIds : r <= q}

NextAuth ==
    \/ \E u \in CallerIds : createUser(u)
    \/ \E u \in CallerIds, a \in BOOLEAN : updateUser(u, a)
    \/ \E u \in CallerIds, d \in BanData : banUser(u, d)
    \/ \E u \in CallerIds : unbanUser(u)
    \/ \E u \in CallerIds, role \in Roles : updateUserRole(u, role)
    \/ \E u \in CallerIds : verifyUserAge(u)
    \/ \E r \in AuthReqs, mw \in Gated, h \in Headers : Gate(r, mw, h)
    \/ \E r \in AuthReqs, h \in Headers : Authenticate(r, h)
    \/ \E r \in AuthReqs : Finish(r)

SpecAuth == InitEmpty /\ [][NextAuth]_vars

FanworkSeed == [authorId : {1}, type : {"artwork"}, rating : {"teen"},
                title : {<<"a">>}, description : {NullText}]
HideData == [moderationReason : {"spam"}, moderatedBy : {1}, moderatedAt : Times]

NextToggle ==
    \/ \E u \in CallerIds : createUser(u)
    \/ \E u \in CallerIds, d \in BanData : banUser(u, d)
    \/ \E u \in CallerIds : unbanUser(u)
    \/ \E f \in FanworkIds, d \in FanworkSeed : createFanwork(f, d)
    \/ \E f \in FanworkIds, d \in HideData : hideFanwork(f, d)
    \/ \E f \in FanworkIds : unhideFanwork(f)
    \/ \E r \in ReqIds, kind \in Kinds, h \in Headers, f \in PathFanworkIds :
          ToggleAuth(r, kind, h, f)
    \/ \E r \in ReqIds : ToggleSelect(r)
    \/ \E r \in ReqIds : ToggleFinish(r)
    \/ \E r \in ReqIds : Finish(r)

SpecToggle == InitEmpty /\ [][NextToggle]_vars

\* every account and every fanwork is there, nothing is liked or bookmarked
InitSeq ==
    /\ users = [u \in UserIds |-> NewUser]
    /\ fanworks = [f \in FanworkIds |-> NewFanwork(f, CHOOSE d \in FanworkSeed : TRUE)]
    /\ likes = {}
    /\ bookmarks = {}
    /\ comments = {}
    /\ reports = [i \in ReportIds |-> NoRow]
    /\ serial = [t \in Tables |-> IF t = "users" THEN NumUsers
                                  ELSE IF t = "fanworks" THEN NumFanworks ELSE 0]
    /\ reqs = [r \in ReqIds |-> Idle]
    /\ tags = {}
    /\ fanworkTags = {}
    /\ \E kind \in Kinds :
          hist = [kind |-> kind,
                  calls |-> [k \in UserIds \X PathFanworkIds |-> 0],
                  ret |-> [k \in UserIds \X PathFanworkIds |-> "none"]]

NextSeq ==
    \/ \E u \in UserIds, f \in PathFanworkIds : toggleLike(u, f)
    \/ \E u \in UserIds, f \in PathFanworkIds : toggleBookmark(u, f)

SpecSeq == InitSeq /\ [][NextSeq]_vars

\* n[f] rows of each fanwork f, with ids of their own and the users taken in turn
RowsUpTo(n) ==
    UNION {{[id |-> (f - 1) * MaxRows + i, userId |-> ((i - 1) % NumUsers) + 1,
             fanworkId |-> f] : i \in 1..n[f]} : f \in FanworkIds}

RowCounts == [FanworkIds -> 0..MaxRows]

\* any number of like, comment and bookmark rows per fanwork
InitCounts ==
    /\ users = [u \in UserIds |-> NewUser]
    /\ fanworks = [f \in FanworkIds |-> NewFanwork(f, CHOOSE d \in FanworkSeed : TRUE)]
    /\ reports = [i \in ReportIds |-> NoRow]
    /\ reqs = [r \in ReqIds |-> Idle]
    /\ tags = {}
    /\ fanworkTags = {}
    /\ \E n \in RowCounts, m \in RowCounts, k \in RowCounts :
          /\ likes = RowsUpTo(n)
          /\ comments = RowsUpTo(m)
          /\ bookmarks = RowsUpTo(k)
          /\ hist = [likes |-> n, comments |-> m, bookmarks |-> k, result |-> Undefined]
    /\ serial = [t \in Tables |->
                   CASE t = "users" -> NumUsers
                     [] t = "fanworks" -> NumFanworks
                     [] OTHER -> NumFanworks * MaxRows]

NextCounts == \E f \in PathFanworkIds : GetCounts(f)

SpecCounts == InitCounts /\ [][NextCounts]_vars

ReportSeed == [reporterId : {1}, fanworkId : {1}, commentId : {NullId}, userId : {NullId},
               reason : {"spam"}, description : {NULL}]
ReviewData == [status : Statuses, moderationAction : ModerationActions,
               reviewedBy : UserIds, reviewedAt : Times]

\* every account and every fanwork is there, nothing is reported
InitReport ==
    /\ users = [u \in UserIds |-> NewUser]
    /\ fanworks = [f \in FanworkIds |-> NewFanwork(f, CHOOSE d \in FanworkSeed : TRUE)]
    /\ likes = {}
    /\ bookmarks = {}
    /\ comments = {}
    /\ reports = [i \in ReportIds |-> NoRow]
    /\ serial = [t \in Tables |-> IF t = "users" THEN NumUsers
                                  ELSE IF t = "fanworks" THEN NumFanworks ELSE 0]
    /\ reqs = [r \in ReqIds |-> Idle]
    /\ tags = {}
    /\ fanworkTags = {}
    /\ hist = NoHist

NextReport ==
    \/ \E i \in ReportIds, d \in ReportSeed : createReport(i, d)
    \/ \E r \in ReqIds, id \in PathReportIds, d \in ReviewData : ReviewIssue(r, id, d)
    \/ \E r \in ReqIds : updateReport(r)
    \/ \E r \in ReqIds : Finish(r)

SpecReport == InitReport /\ [][NextReport]_vars

BrowseSeed == [authorId : UserIds, type : {"artwork"}, rating : {"teen"},
               title : {<<"a">>}, description : {NullText}]
BrowseFilters == {NoFilters, [NoFilters EXCEPT !.authorId = <<1>>],
                  [NoFilters EXCEPT !.search = <<"A">>]}

NextBrowse ==
    \/ \E u \in UserIds : createUser(u)
    \/ \E u \in UserIds, role \in Roles : updateUserRole(u, role)
    \/ \E f \in FanworkIds, d \in BrowseSeed : createFanwork(f, d)
    \/ \E f \in FanworkIds, d \in HideData : hideFanwork(f, d)
    \/ \E f \in FanworkIds : unhideFanwork(f)
    \/ \E r \in ReqIds, h \in Headers, fl \in BrowseFilters : BrowseAuth(r, "list", h, fl)
    \/ \E r \in ReqIds, h \in Headers, f \in PathFanworkIds : BrowseAuth(r, "one", h, f)
    \/ \E r \in ReqIds : BrowseList(r)
    \/ \E r \in ReqIds : BrowseOne(r)
    \/ \E r \in ReqIds : Finish(r)

SpecBrowse == InitEmpty /\ [][NextBrowse]_vars

ModerationBan == [banReason : BanReasons, bannedBy : {1}, bannedAt : {1}]
ModerationHide == [moderationReason : {"spam"}, moderatedBy : {1}, moderatedAt : {1}]
ModerationReports == [reporterId : {1}, fanworkId : {1}, commentId : {NullId},
                      userId : {NullId}, reason : {"spam"}, description : {NULL}]

\* the moderation runs follow one report, the first one created
ModeratedReports == {i \in ReportIds : \A j \in ReportIds : i <= j}

\* every account and every fanwork is there, each fanwork has a comment, a like
\* and a bookmark, nothing is reported
InitModerate ==
    /\ users = [u \in UserIds |-> NewUser]
    /\ fanworks = [f \in FanworkIds |-> NewFanwork(f, CHOOSE d \in FanworkSeed : TRUE)]
    /\ likes = RowsUpTo([f \in FanworkIds |-> 1])
    /\ bookmarks = RowsUpTo([f \in FanworkIds |-> 1])
    /\ comments = RowsUpTo([f \in FanworkIds |-> 1])
    /\ reports = [i \in ReportIds |-> NoRow]
    /\ serial = [t \in Tables |->
                   CASE t = "users" -> NumUsers
                     [] t = "fanworks" -> NumFanworks
                     [] t = "reports" -> 0
                     [] OTHER -> NumFanworks * MaxRows]
    /\ reqs = [r \in ReqIds |-> Idle]
    /\ tags = {}
    /\ fanworkTags = {}
    /\ hist = NoCall

NextModerate ==
    \/ \E u \in CallerIds \cup {NumUsers + 1}, d \in ModerationBan : BanCall(u, d)
    \/ \E u \in CallerIds \cup {NumUsers + 1} : UnbanCall(u)
    \/ \E f \in PathFanworkIds, d \in ModerationHide : HideCall(f, d)
    \/ \E i \in ModeratedReports, d \in ModerationReports : createReport(i, d)
    \/ \E id \in ModeratedReports \cup {NumReports + 1}, reviewer \in CallerIds,
          st \in Statuses, a \in ModerationActions, now \in Times :
          reviewReport(id, reviewer, st, a, now)

SpecModerate == InitModerate /\ [][NextModerate]_vars

\* what a caller may hand to createReport: an InsertReport
ReportInputs == [reporterId : {1}, fanworkId : {NullId} \cup FanworkIds,
                 commentId : {NullId, 1}, userId : {NullId, 1},
                 reason : {"spam", ""}, description : {NULL}]

\* every account and every fanwork is there, each fanwork has a comment, nothing
\* is reported
InitIntake ==
    /\ users = [u \in UserIds |-> NewUser]
    /\ fanworks = [f \in FanworkIds |-> NewFanwork(f, CHOOSE d \in FanworkSeed : TRUE)]
    /\ likes = {}
    /\ bookmarks = {}
    /\ comments = RowsUpTo([f \in FanworkIds |-> 1])
    /\ reports = [i \in 1..MaxReports |-> NoRow]
    /\ serial = [t \in Tables |->
                   CASE t = "users" -> NumUsers
                     [] t = "fanworks" -> NumFanworks
                     [] t = "comments" -> NumFanworks * MaxRows
                     [] OTHER -> 0]
    /\ reqs = [r \in ReqIds |-> Idle]
    /\ tags = {}
    /\ fanworkTags = {}
    /\ hist = NoHist

NextIntake == \E i \in 1..MaxReports, d \in ReportInputs : createReport(i, d)

SpecIntake == InitIntake /\ [][NextIntake]_vars

TagNames == {"rick"}
ListSeed == [authorId : UserIds, type : {"artwork", "comic"}, rating : {"teen"},
             title : {<<"a">>, <<"b">>}, description : {NullText, <<"a">>}]
ListFilters ==
    {NoFilters,
     [NoFilters EXCEPT !.type = <<"artwork">>],
     [NoFilters EXCEPT !.type = <<"artwork", "comic">>, !.rating = <<"teen">>],
     [NoFilters EXCEPT !.rating = <<"mature">>],
     [NoFilters EXCEPT !.tags = <<"rick">>],
     [NoFilters EXCEPT !.search = <<"A">>],
     [NoFilters EXCEPT !.search = <<"A">>, !.authorId = <<2>>],
     [NoFilters EXCEPT !.search = <<"A">>, !.type = <<"comic">>],
     [NoFilters EXCEPT !.authorId = <<1>>],
     [NoFilters EXCEPT !.limit = 1],
     [NoFilters EXCEPT !.offset = 1]}

\* every account is there; the fanworks are any rows, each tagged or not
InitList ==
    /\ users = [u \in UserIds |-> NewUser]
    /\ \E rows \in [FanworkIds -> ListSeed] :
          fanworks = [f \in FanworkIds |-> NewFanwork(f, rows[f])]
    /\ tags = {[id |-> 1, name |-> n] : n \in TagNames}
    /\ \E tagged \in SUBSET FanworkIds :
          fanworkTags = {[id |-> f, fanworkId |-> f, tagId |-> 1] : f \in tagged}
    /\ likes = {}
    /\ bookmarks = {}
    /\ comments = {}
    /\ reports = [i \in ReportIds |-> NoRow]
    /\ serial = [t \in Tables |-> IF t = "users" THEN NumUsers
                                  ELSE IF t = "fanworks" THEN NumFanworks ELSE 0]
    /\ reqs = [r \in ReqIds |-> Idle]
    /\ hist = NoHist

NextList == \E fl \in ListFilters : ListCall(fl)

SpecList == InitList /\ [][NextList]_vars

(***************************************************************************)
(* storage.ts: tags.  tags.name is unique; a row is [id, name].            *)
(***************************************************************************)
NewTagNames == {"rick", "morty"}

\* what an insert rejected by a unique constraint throws
UniqueViolation == [error |-> "unique_violation"]

\* select * from tags where name = :name ; first row or undefined
TagByName(name) ==
    IF \E t \in tags : t.name = name THEN CHOOSE t \in tags : t.name = name
    ELSE Undefined

\* getOrCreateTag up to its first await: the select by name
TagSelect(r, name) ==
    /\ reqs[r] = Idle
    /\ reqs' = [reqs EXCEPT ![r] = [pc |-> "tagSelected", name |-> name,
                                    existing |-> TagByName(name)]]
    /\ UNCHANGED <<users, fanworks, tags, fanworkTags, likes, bookmarks, comments,
                   reports, serial, hist>>

\* the rest of getOrCreateTag: return the row the select found, or insert one.
\* The insert takes the next serial id, and the unique key on name rejects it
\* when a row of that name has appeared since the select; nothing catches that
TagInsert(r) ==
    LET q == reqs[r]
        created == [id |-> serial.tags + 1, name |-> q.name]
        taken == TagByName(q.name) /= Undefined
    IN /\ q.pc = "tagSelected"
       /\ q.existing /= Undefined \/ serial.tags < MaxSerial
       /\ tags' = IF q.existing = Undefined /\ ~taken THEN tags \cup {created}
                  ELSE tags
       /\ serial' = IF q.existing = Undefined THEN [serial EXCEPT !.tags = @ + 1]
                    ELSE serial
       /\ reqs' = [reqs EXCEPT ![r] =
                     [pc |-> "done", op |-> "getOrCreateTag", name |-> q.name,
                      existing |-> q.existing,
                      returns |-> IF q.existing /= Undefined THEN q.existing
                                  ELSE IF taken THEN UniqueViolation
                                  ELSE created]]
       /\ UNCHANGED <<users, fanworks, fanworkTags, likes, bookmarks, comments,
                      reports, hist>>

\* calls of getOrCreateTag from any requests, over an empty tags table
NextTags ==
    \/ \E r \in ReqIds, n \in NewTagNames : TagSelect(r, n)
    \/ \E r \in ReqIds : TagInsert(r)
    \/ \E r \in ReqIds : Finish(r)

SpecTags == InitEmpty /\ [][NextTags]_vars

(***************************************************************************)
(* storage.ts: deleteFanwork.  The statement deletes one fanworks row; the *)
(* foreign keys declared "on delete cascade" remove the rows that point at *)
(* it, and the rows that point at those.                                   *)
(***************************************************************************)
\* rows of a table with a fanwork_id column that the cascade leaves
Surviving(rows, id) == {row \in rows : row.fanworkId /= id}

\* reports.fanwork_id and reports.comment_id both cascade
ReportsSurviving(id, goneComments) ==
    [i \in DOMAIN reports |->
       IF /\ reports[i] /= NoRow
          /\ \/ reports[i].fanworkId = id
             \/ reports[i].commentId \in goneComments
       THEN NoRow ELSE reports[i]]

\* the statement of deleteFanwork(id) with its cascades
DeleteFanworkRows(id) ==
    LET found == getFanwork(id) /= Undefined
        goneComments == {c.id : c \in {c \in comments : c.fanworkId = id}}
    IN /\ fanworks' = IF found THEN [fanworks EXCEPT ![id] = NoRow] ELSE fanworks
       /\ fanworkTags' = IF found THEN Surviving(fanworkTags, id) ELSE fanworkTags
       /\ likes' = IF found THEN Surviving(likes, id) ELSE likes
       /\ comments' = IF found THEN Surviving(comments, id) ELSE comments
       /\ bookmarks' = IF found THEN Surviving(bookmarks, id) ELSE bookmarks
       /\ reports' = IF found THEN ReportsSurviving(id, goneComments) ELSE reports

\* deleteFanwork(id), one whole call, for any id
deleteFanwork(id) ==
    /\ DeleteFanworkRows(id)
    /\ hist' = [op |-> "deleteFanwork", target |-> id, data |-> Undefined,
                returns |-> Undefined]
    /\ UNCHANGED <<users, tags, serial, reqs>>

StoredFanworkIds == 1..MaxFanworks

\* one possible like, bookmark or comment of user 1 per fanwork (row id = fanwork
\* id), and one possible link of each fanwork to tag 1
OwnRows(fs) == {[id |-> f, userId |-> 1, fanworkId |-> f] : f \in fs}
TagLinks(fs) == {[id |-> f, fanworkId |-> f, tagId |-> 1] : f \in fs}

\* reports filed on a fanwork, on a comment, or naming both
DeleteReportInputs ==
    [reporterId : {1}, fanworkId : {NullId} \cup StoredFanworkIds,
     commentId : {NullId, 1}, userId : {NullId}, reason : {"spam"},
     description : {NULL}]

\* every account and fanwork is there; each fanwork has any of its dependents
InitDelete ==
    /\ users = [u \in UserIds |-> NewUser]
    /\ fanworks = [f \in StoredFanworkIds |->
                     NewFanwork(f, CHOOSE d \in FanworkSeed : TRUE)]
    /\ tags = {[id |-> 1, name |-> "rick"]}
    /\ \E a \in SUBSET StoredFanworkIds : fanworkTags = TagLinks(a)
    /\ \E a \in SUBSET StoredFanworkIds : likes = OwnRows(a)
    /\ \E a \in SUBSET StoredFanworkIds : bookmarks = OwnRows(a)
    /\ \E a \in SUBSET StoredFanworkIds : comments = OwnRows(a)
    /\ reports = [i \in 1..MaxReports |-> NoRow]
    /\ serial = [t \in Tables |->
                   CASE t = "users" -> NumUsers
                     [] t = "tags" -> 1
                     [] t = "reports" -> 0
                     [] OTHER -> MaxFanworks]
    /\ reqs = [r \in ReqIds |-> Idle]
    /\ hist = NoCall

NextDelete ==
    \/ \E i \in 1..MaxReports, d \in DeleteReportInputs : createReport(i, d)
    \/ \E f \in 1..(MaxFanworks + 1) : deleteFanwork(f)

SpecDelete == InitDelete /\ [][NextDelete]_vars

(***************************************************************************)
(* routes: POST /api/auth/register.  users.email and users.username are    *)
(* unique.  Text is a sequence of characters.                              *)
(***************************************************************************)
\* z.string().email(), as far as the inputs below tell: an "@" inside the text
IsEmail(text) == \E i \in 2..(Len(text) - 1) : text[i] = "@"

\* registerSchema.parse: does the body pass
RegisterValid(body) ==
    /\ IsEmail(body.email)
    /\ Len(body.username) >= 3 /\ Len(body.username) <= 50
    /\ Len(body.password) >= 6

RegisterBodies ==
    {[email |-> <<"a", "@", "x">>, username |-> <<"r", "i", "c">>,
      password |-> <<"s", "e", "c", "r", "e", "t">>],
     [email |-> <<"a", "@", "x">>, username |-> <<"m", "o", "r">>,
      password |-> <<"s", "e", "c", "r", "e", "t">>],
     [email |-> <<"b", "@", "x">>, username |-> <<"r", "i", "c">>,
      password |-> <<"s", "e", "c", "r", "e", "t">>],
     [email |-> <<"b", "@", "x">>, username |-> <<"m", "o">>,
      password |-> <<"s", "e", "c", "r", "e", "t">>],
     [email |-> <<"a", "x">>, username |-> <<"m", "o", "r">>,
      password |-> <<"s", "e", "c">>]}

StoredUsers == {users[u] : u \in {u \in DOMAIN users : users[u] /= NoRow}}

\* getUserByEmail / getUserByUsername: is there a row
getUserByEmail(email) == \E row \in StoredUsers : row.email = email
getUserByUsername(username) == \E row \in StoredUsers : row.username = username

\* the handler up to its first await: parse the body, select by email
RegisterStart(r, body) ==
    /\ reqs[r] = Idle
    /\ reqs' = [reqs EXCEPT ![r] =
                  IF ~RegisterValid(body)
                  THEN [pc |-> "done", op |-> "register", body |-> body,
                        status |-> 400, message |-> "Validation error"]
                  ELSE [pc |-> "emailChecked", body |-> body,
                        existing |-> getUserByEmail(body.email)]]
    /\ UNCHANGED <<users, fanworks, tags, fanworkTags, likes, bookmarks, comments,
                   reports, serial, hist>>

\* from the answer of the first select to the second await: select by username
RegisterCheckUsername(r) ==
    /\ reqs[r].pc = "emailChecked"
    /\ reqs' = [reqs EXCEPT ![r] =
                  IF reqs[r].existing
                  THEN [pc |-> "done", op |-> "register", body |-> reqs[r].body,
                        status |-> 400, message |-> "Email already registered"]
                  ELSE [pc |-> "usernameChecked", body |-> reqs[r].body,
                        existing |-> getUserByUsername(reqs[r].body.username)]]
    /\ UNCHANGED <<users, fanworks, tags, fanworkTags, likes, bookmarks, comments,
                   reports, serial, hist>>

\* the rest: hash the password, createUser, answer.  The insert takes the next
\* serial id; a unique key rejects it when the email or the username is stored,
\* and the catch answers every error that is not a ZodError with 500
RegisterCreate(r) ==
    LET q == reqs[r]
        id == serial.users + 1
        rejected == getUserByEmail(q.body.email) \/ getUserByUsername(q.body.username)
    IN /\ q.pc = "usernameChecked"
       /\ q.existing \/ id \in DOMAIN users
       /\ users' = IF q.existing \/ rejected THEN users
                   ELSE [users EXCEPT ![id] =
                           [email |-> q.body.email, username |-> q.body.username]
                           @@ NewUser]
       /\ serial' = IF q.existing THEN serial ELSE [serial EXCEPT !.users = id]
       /\ reqs' = [reqs EXCEPT ![r] =
                     [pc |-> "done", op |-> "register", body |-> q.body,
                      status |-> IF q.existing THEN 400
                                 ELSE IF rejected THEN 500 ELSE 200,
                      message |-> IF q.existing THEN "Username already taken"
                                  ELSE IF rejected THEN "Registration failed"
                                  ELSE "token"]]
       /\ UNCHANGED <<fanworks, tags, fanworkTags, likes, bookmarks, comments,
                      reports, hist>>

NextRegister ==
    \/ \E r \in ReqIds, b \in RegisterBodies : RegisterStart(r, b)
    \/ \E r \in ReqIds : RegisterCheckUsername(r)
    \/ \E r \in ReqIds : RegisterCreate(r)
    \/ \E r \in ReqIds : Finish(r)

SpecRegister == InitEmpty /\ [][NextRegister]_vars

\* accounts of any role, age-verified or not
RestoreUsers ==
    {[NewUser EXCEPT !.role = role, !.ageVerified = a] :
        role \in Roles, a \in BOOLEAN}

\* the rows banUser and hideFanwork leave
Banned(row, data) ==
    [row EXCEPT !.isBanned = TRUE, !.banReason = data.banReason,
                !.bannedBy = data.bannedBy, !.bannedAt = data.bannedAt]
Hidden(row, data) ==
    [row EXCEPT !.isHidden = TRUE, !.moderationReason = data.moderationReason,
                !.moderatedBy = data.moderatedBy, !.moderatedAt = data.moderatedAt]

\* every account has been banned and every fanwork hidden
InitRestore ==
    /\ \E rows \in [UserIds -> RestoreUsers], d \in ModerationBan :
          users = [u \in UserIds |-> Banned(rows[u], d)]
    /\ \E rows \in [FanworkIds -> FanworkSeed], d \in ModerationHide :
          fanworks = [f \in FanworkIds |-> Hidden(NewFanwork(f, rows[f]), d)]
    /\ likes = {}
    /\ bookmarks = {}
    /\ comments = {}
    /\ reports = [i \in ReportIds |-> NoRow]
    /\ serial = [t \in Tables |-> IF t = "users" THEN NumUsers
                                  ELSE IF t = "fanworks" THEN NumFanworks ELSE 0]
    /\ reqs = [r \in ReqIds |-> Idle]
    /\ tags = {}
    /\ fanworkTags = {}
    /\ hist = NoCall

\* unbans and unhides, and later bans and hides
NextRestore ==
    \/ \E u \in CallerIds \cup {NumUsers + 1}, d \in ModerationBan : BanCall(u, d)
    \/ \E u \in CallerIds \cup {NumUsers + 1} : UnbanCall(u)
    \/ \E f \in PathFanworkIds, d \in ModerationHide : HideCall(f, d)
    \/ \E f \in PathFanworkIds : UnhideCall(f)

SpecRestore == InitRestore /\ [][NextRestore]_vars

(***************************************************************************)
(* server/routes.ts: PUT and DELETE /api/fanworks/:id.  isAuthenticated has *)
(* passed; userId is the id of the signed-in user (req.user.claims.sub).   *)
(***************************************************************************)
OwnerOps == {"PUT", "DELETE"}
EditBodies == {[title |-> <<"b">>]}

\* a handler that skips the comparison of authorId with the caller
OwnerCheckAnyUser(r, op, userId, id, body) ==
    /\ reqs[r] = Idle
    /\ LET existingFanwork == getFanwork(id) IN
       reqs' = [reqs EXCEPT ![r] =
                  IF existingFanwork = Undefined
                  THEN [pc |-> "done", op |-> op, user |-> userId, fanworkId |-> id,
                        status |-> 404, message |-> "Fanwork not found"]
                  ELSE [pc |-> "owned", op |-> op, user |-> userId, fanworkId |-> id,
                        body |-> body]]
    /\ UNCHANGED <<users, fanworks, tags, fanworkTags, likes, bookmarks, comments,
                   reports, serial, hist>>

\* either handler up to the answer of getFanwork: 404, 403 or go on to the write
OwnerCheck(r, op, userId, id, body) ==
    /\ reqs[r] = Idle
    /\ LET existingFanwork == getFanwork(id) IN
       reqs' = [reqs EXCEPT ![r] =
                  IF existingFanwork = Undefined
                  THEN [pc |-> "done", op |-> op, user |-> userId, fanworkId |-> id,
                        status |-> 404, message |-> "Fanwork not found"]
                  ELSE IF existingFanwork.authorId /= userId
                  THEN [pc |-> "done", op |-> op, user |-> userId, fanworkId |-> id,
                        status |-> 403, message |-> "Not authorized"]
                  ELSE [pc |-> "owned", op |-> op, user |-> userId, fanworkId |-> id,
                        body |-> body]]
    /\ UNCHANGED <<users, fanworks, tags, fanworkTags, likes, bookmarks, comments,
                   reports, serial, hist>>

\* PUT: updateFanwork(id, {...req.body}) sets the fields of the body and
\* updatedAt where the row still exists, and the handler answers with the row
\* (200 also when the update matched no row)
OwnerUpdate(r, now) ==
    LET q == reqs[r] IN
    /\ q.pc = "owned" /\ q.op = "PUT"
    /\ fanworks' = UpdateFanworkRow(q.fanworkId, q.body @@ [updatedAt |-> now])
    /\ reqs' = [reqs EXCEPT ![r] =
                  [pc |-> "done", op |-> q.op, user |-> q.user,
                   fanworkId |-> q.fanworkId, status |-> 200, message |-> NULL]]
    /\ UNCHANGED <<users, tags, fanworkTags, likes, bookmarks, comments, reports,
                   serial, hist>>

\* DELETE: deleteFanwork(id), then 204
OwnerDelete(r) ==
    LET q == reqs[r] IN
    /\ q.pc = "owned" /\ q.op = "DELETE"
    /\ DeleteFanworkRows(q.fanworkId)
    /\ reqs' = [reqs EXCEPT ![r] =
                  [pc |-> "done", op |-> q.op, user |-> q.user,
                   fanworkId |-> q.fanworkId, status |-> 204, message |-> NULL]]
    /\ UNCHANGED <<users, tags, serial, hist>>

\* requests of every user on the fanworks of user 1 and on an absent id
NextOwner ==
    \/ \E r \in ReqIds, op \in OwnerOps, u \in UserIds, f \in PathFanworkIds,
          b \in EditBodies : OwnerCheck(r, op, u, f, b)
    \/ \E r \in ReqIds, now \in Times : OwnerUpdate(r, now)
    \/ \E r \in ReqIds : OwnerDelete(r)
    \/ \E r \in ReqIds : Finish(r)

SpecOwner == InitModerate /\ [][NextOwner]_vars

(***************************************************************************)
(* storage.ts: createComment and deleteComment                              *)
(***************************************************************************)
CommentIds == 1..(NumFanworks * MaxRows + MaxSerial)

\* what an insert rejected by a foreign key throws
ForeignKeyViolation == [error |-> "foreign_key_violation"]

\* createComment({userId, fanworkId, content}): one insert; the foreign keys
\* reject a user or a fanwork that is not there
CommentRows(userId, fanworkId) ==
    /\ serial.comments + 1 \in CommentIds
    /\ comments' = IF ForeignKeysHold(userId, fanworkId)
                   THEN InsertRow(comments, serial.comments + 1, userId, fanworkId)
                   ELSE comments
    /\ serial' = [serial EXCEPT !.comments = @ + 1]

\* deleteComment that matches on the id alone
DeleteCommentCallAnyUser(id, userId) ==
    /\ comments' = {c \in comments : c.id /= id}
    /\ reports' = [i \in DOMAIN reports |->
                     IF reports[i] /= NoRow /\ reports[i].commentId = id
                     THEN NoRow ELSE reports[i]]
    /\ hist' = [op |-> "deleteComment", target |-> id,
                data |-> [userId |-> userId],
                returns |-> Undefined]
    /\ UNCHANGED <<users, fanworks, tags, fanworkTags, likes, bookmarks, serial, reqs>>

\* deleteComment(id, userId): delete from comments where id = :id and
\* user_id = :userId; reports.comment_id cascades
DeleteCommentRows(id, userId) ==
    LET gone == {c \in comments : c.id = id /\ c.userId = userId} IN
    /\ comments' = comments \ gone
    /\ reports' = [i \in DOMAIN reports |->
                     IF reports[i] /= NoRow /\ reports[i].commentId \in {c.id : c \in gone}
                     THEN NoRow ELSE reports[i]]

\* deleteComment, one whole call
DeleteCommentCall(id, userId) ==
    /\ DeleteCommentRows(id, userId)
    /\ hist' = [op |-> "deleteComment", target |-> id,
                data |-> [userId |-> userId],
                returns |-> Undefined]
    /\ UNCHANGED <<users, fanworks, tags, fanworkTags, likes, bookmarks, serial, reqs>>

\* any number of comments per fanwork at first
InitComments ==
    /\ users = [u \in UserIds |-> NewUser]
    /\ fanworks = [f \in FanworkIds |-> NewFanwork(f, CHOOSE d \in FanworkSeed : TRUE)]
    /\ likes = {}
    /\ bookmarks = {}
    /\ \E n \in RowCounts : comments = RowsUpTo(n)
    /\ reports = [i \in ReportIds |-> NoRow]
    /\ serial = [t \in Tables |->
                   CASE t = "users" -> NumUsers
                     [] t = "fanworks" -> NumFanworks
                     [] t = "comments" -> NumFanworks * MaxRows
                     [] OTHER -> 0]
    /\ reqs = [r \in ReqIds |-> Idle]
    /\ tags = {}
    /\ fanworkTags = {}
    /\ hist = NoCall

NextComments ==
    \/ \E id \in CommentIds, u \in TokenUserIds : DeleteCommentCall(id, u)
    \/ \E i \in ReportIds, d \in ReportSeed : createReport(i, [d EXCEPT !.commentId = 1])

SpecComments == InitComments /\ [][NextComments]_vars

(***************************************************************************)
(* storage.ts: getFanworkCounts, one count query per await, while toggles  *)
(* and comment calls run.  hist.seen collects the counts of the fanwork in *)
(* every store state from the first query of the running call on.          *)
(***************************************************************************)
Counting == {r \in ReqIds : reqs[r].pc \in {"likesCounted", "commentsCounted"}}

\* a write of another call: the store states a running count call lives through
Observe ==
    hist' = [seen |-> IF Counting = {} THEN hist.seen
                      ELSE hist.seen \cup
                           {getFanworkCounts(reqs[r].fanworkId)' : r \in Counting}]

\* the first query: select count(*) from likes where fanwork_id = :f
CountLikes(r, fanworkId) ==
    /\ reqs[r] = Idle
    /\ reqs' = [reqs EXCEPT ![r] =
                  [pc |-> "likesCounted", fanworkId |-> fanworkId,
                   likes |-> CountRows(likes, fanworkId)]]
    /\ hist' = [seen |-> {getFanworkCounts(fanworkId)}]
    /\ UNCHANGED <<users, fanworks, tags, fanworkTags, likes, bookmarks, comments,
                   reports, serial>>

\* the second query: select count(*) from comments where fanwork_id = :f
CountComments(r) ==
    /\ reqs[r].pc = "likesCounted"
    /\ reqs' = [reqs EXCEPT ![r] =
                  [pc |-> "commentsCounted", fanworkId |-> @.fanworkId,
                   likes |-> @.likes,
                   comments |-> CountRows(comments, @.fanworkId)]]
    /\ UNCHANGED <<users, fanworks, tags, fanworkTags, likes, bookmarks, comments,
                   reports, serial, hist>>

\* the third query, on bookmarks, and the object the call returns
CountBookmarks(r) ==
    /\ reqs[r].pc = "commentsCounted"
    /\ reqs' = [reqs EXCEPT ![r] =
                  [pc |-> "done", op |-> "getFanworkCounts",
                   fanworkId |-> @.fanworkId,
                   result |-> [likes |-> OrZero(@.likes),
                               comments |-> OrZero(@.comments),
                               bookmarks |-> OrZero(CountRows(bookmarks,
                                                              @.fanworkId))]]]
    /\ UNCHANGED <<users, fanworks, tags, fanworkTags, likes, bookmarks, comments,
                   reports, serial, hist>>

\* toggleLike / toggleBookmark, one whole call, while a count call may be running
CountedToggle(kind, userId, fanworkId) ==
    LET existing == Existing(kind, userId, fanworkId)
        w == ToggleWrite(kind, userId, fanworkId, existing) IN
    /\ CanWrite(kind, existing)
    /\ likes' = IF kind = "like" THEN w.rows ELSE likes
    /\ bookmarks' = IF kind = "bookmark" THEN w.rows ELSE bookmarks
    /\ serial' = w.serial
    /\ UNCHANGED <<users, fanworks, tags, fanworkTags, comments, reports, reqs>>
    /\ Observe

\* createComment, one whole call, while a count call may be running
CountedComment(userId, fanworkId) ==
    /\ CommentRows(userId, fanworkId)
    /\ UNCHANGED <<users, fanworks, tags, fanworkTags, likes, bookmarks, reports, reqs>>
    /\ Observe

\* deleteComment, one whole call, while a count call may be running
CountedDeleteComment(id, userId) ==
    /\ DeleteCommentRows(id, userId)
    /\ UNCHANGED <<users, fanworks, tags, fanworkTags, likes, bookmarks, serial, reqs>>
    /\ Observe

\* every account and every fanwork is there, with no like, comment or bookmark
InitSnapshot ==
    /\ users = [u \in UserIds |-> NewUser]
    /\ fanworks = [f \in FanworkIds |-> NewFanwork(f, CHOOSE d \in FanworkSeed : TRUE)]
    /\ likes = {}
    /\ bookmarks = {}
    /\ comments = {}
    /\ reports = [i \in ReportIds |-> NoRow]
    /\ serial = [t \in Tables |->
                   CASE t = "users" -> NumUsers
                     [] t = "fanworks" -> NumFanworks
                     [] t = "comments" -> NumFanworks * MaxRows
                     [] OTHER -> 0]
    /\ reqs = [r \in ReqIds |-> Idle]
    /\ tags = {}
    /\ fanworkTags = {}
    /\ hist = [seen |-> {}]

\* one count call at a time, the calls of user 1 around it
NextSnapshot ==
    \/ \E r \in AuthReqs, f \in FanworkIds : CountLikes(r, f)
    \/ \E r \in AuthReqs : CountComments(r)
    \/ \E r \in AuthReqs : CountBookmarks(r)
    \/ \E r \in AuthReqs : Finish(r)
    \/ \E kind \in Kinds, u \in CallerIds, f \in FanworkIds : CountedToggle(kind, u, f)
    \/ \E u \in CallerIds, f \in FanworkIds : CountedComment(u, f)
    \/ \E id \in CommentIds, u \in CallerIds : CountedDeleteComment(id, u)

SpecSnapshot == InitSnapshot /\ [][NextSnapshot]_vars

\* C1: at most one Like row and at most one Bookmark row per (user, fanwork),
\* also when two toggles of the same pair interleave between select and insert.
C1_AtMostOneRowPerPair ==
    \A kind \in Kinds, u \in UserIds, f \in FanworkIds :
        Cardinality(Matching(RowsOf(kind), u, f)) <= 1

\* C2: with no Like (Bookmark) row at first and whole calls one after another,
\* the calls of toggleLike(U, I) (toggleBookmark) return true, false, true, ...
\* and the row of (U, I) exists exactly after an odd number of calls.
C2_TogglesAlternate ==
    \A u \in UserIds, f \in FanworkIds :
        LET n == hist.calls[<<u, f>>] IN
        /\ Existing(hist.kind, u, f) <=> n % 2 = 1
        /\ n > 0 => hist.ret[<<u, f>>] = IF n % 2 = 1 THEN "true" ELSE "false"

C2_Witness ==
    \E u \in UserIds, f \in FanworkIds :
        /\ hist.kind = "bookmark"
        /\ hist.calls[<<u, f>>] = 3
        /\ hist.ret[<<u, f>>] = "true"
        /\ isBookmarked(u, f) /\ ~isLiked(u, f)

ReviewFields(row) ==
    <<row.status, row.reviewedBy, row.reviewedAt, row.moderationAction>>

\* C3: once the status of a report is reviewed, resolved or dismissed, no step
\* changes its status, reviewedBy, reviewedAt or moderationAction (so it never
\* returns to pending), and an updateReport on it returns no updated row.
C3_TerminalReportIsFrozen ==
    [][\A i \in ReportIds :
         (reports[i] /= NoRow /\ reports[i].status \in Terminal)
         => /\ ReviewFields(reports'[i]) = ReviewFields(reports[i])
            /\ \A r \in ReqIds :
                  (updateReport(r) /\ reqs[r].id = i) => reqs'[r].returns = Undefined]_vars

DoneReviews == {r \in ReqIds : reqs[r].pc = "done"}
Succeeded(r) == reqs[r].returns /= Undefined

\* C4: the review is a conditional update: of two reviews sent while the report
\* is pending, the one whose statement runs after the other has left pending
\* does not succeed, so exactly one reviewer wins and the report keeps the
\* winner's fields.
C4_OneReviewerWins ==
    \A r \in DoneReviews :
        (reqs[r].sawPending /\ Succeeded(r)) => reqs[r].ranPending

\* the callers a hidden fanwork may be shown to: its author, moderators, admins
MaySeeHidden(userId, f) ==
    /\ getUserById(userId) /= Undefined
    /\ \/ fanworks[f].authorId = userId
       \/ getUserById(userId).role \in {"moderator", "admin"}

Returned(body, f) == \E k \in 1..Len(body) : body[k] = f

\* C5: GET /api/fanworks and GET /api/fanworks/:id return a fanwork whose
\* isHidden is true only to its author or to a moderator or admin, never to an
\* anonymous or other caller.
C5_HiddenOnlyForOwnerAndModerators ==
    [][\A r \in ReqIds :
         (BrowseList(r) \/ BrowseOne(r))
         => \A f \in FanworkIds :
               (/\ fanworks[f] /= NoRow
                /\ fanworks[f].isHidden
                /\ Returned(reqs'[r].body, f))
               => MaySeeHidden(reqs[r].user, f)]_vars

\* C7: a toggle request of a caller who is banned when it authenticates
\* inserts and deletes no Like or Bookmark row.
C7_BannedToggleIsNoOp ==
    \A r \in ReqIds :
        (reqs[r].pc = "done" /\ reqs[r].banned) => ~reqs[r].wrote

RowsOfItem(n, f) == IF f \in FanworkIds THEN n[f] ELSE 0

\* C9: for a fanwork with N Like rows, M Comment rows and K Bookmark rows and no
\* writer during the call, getFanworkCounts returns exactly
\* {likes: N, comments: M, bookmarks: K}; rows of other fanworks do not count.
C9_CountsAreRowCounts ==
    hist.result /= Undefined =>
        LET f == hist.result.fanworkId IN
        hist.result.counts = [likes |-> RowsOfItem(hist.likes, f),
                              comments |-> RowsOfItem(hist.comments, f),
                              bookmarks |-> RowsOfItem(hist.bookmarks, f)]

C9_Witness ==
    /\ hist.result /= Undefined
    /\ hist.result.fanworkId \in FanworkIds
    /\ hist.result.counts = [likes |-> 2, comments |-> 1, bookmarks |-> 3]

\* C10: a toggle on a fanwork id without a row, or on a hidden fanwork, answers
\* 404 NotFound and leaves the likes and bookmarks tables as they were.
C10_ToggleOnAbsentOrHiddenIsNotFound ==
    [][\A r \in ReqIds :
         (/\ ToggleFinish(r)
          /\ \/ getFanwork(reqs[r].fanworkId) = Undefined
             \/ getFanwork(reqs[r].fanworkId).isHidden)
         => /\ reqs'[r].status = 404
            /\ likes' = likes /\ bookmarks' = bookmarks]_vars

GatedReqs == {r \in ReqIds : reqs[r].pc = "gated"}

\* C6: a gated middleware never calls next() for a caller whose user row is
\* banned, whatever the role; when the credential resolves to an active
\* account the answer is 403 Forbidden.
C6_BannedNeverPasses ==
    \A r \in GatedReqs :
        (reqs[r].row /= Undefined /\ reqs[r].row.isBanned) =>
            /\ ~reqs[r].out.next
            /\ reqs[r].row.isActive => reqs[r].out.status = 403

C6_Witness ==
    \E r \in GatedReqs :
        /\ reqs[r].mw = "requireAdmin"
        /\ reqs[r].row /= Undefined
        /\ reqs[r].row.isBanned /\ reqs[r].row.isActive /\ reqs[r].row.role = "admin"
        /\ reqs[r].out.status = 403 /\ ~reqs[r].out.next

\* the check that fails first in the order credential, ban, role, age
FirstFailing(mw, h, row) ==
    IF \/ HeaderToken(h) = NoToken
       \/ verifyToken(HeaderToken(h)) = Undefined
       \/ row = Undefined
    THEN "credential"
    ELSE IF ~row.isActive THEN "credential"
    ELSE IF row.isBanned THEN "ban"
    ELSE IF mw = "requireModerator" /\ row.role \notin {"moderator", "admin"} THEN "role"
    ELSE IF mw = "requireAdmin" /\ row.role /= "admin" THEN "role"
    ELSE IF mw = "requireAgeVerification" /\ ~row.ageVerified THEN "age"
    ELSE "none"

RoleMessages == {"Moderator access required", "Admin access required"}

\* C8: the outcome of a gated middleware is that of the first failing check in
\* the order credential, ban, role, age: 401 for a bad credential even when the
\* user is banned, the ban 403 for a banned caller even when the role is too low.
C8_FirstFailingDecides ==
    \A r \in GatedReqs :
        LET ff == FirstFailing(reqs[r].mw, reqs[r].header, reqs[r].row)
            out == reqs[r].out IN
        /\ ff = "credential" => out.status = 401 /\ ~out.next
        /\ ff = "ban" => out.status = 403 /\ out.message = "Account banned" /\ ~out.next
        /\ ff = "role" => out.status = 403 /\ out.message \in RoleMessages /\ ~out.next
        /\ ff = "age" => /\ out.status = 403 /\ ~out.next
                         /\ out.message = "Age verification required for 18+ content"
        /\ ff = "none" => out.next

C8_Witness ==
    \E r \in GatedReqs :
        /\ reqs[r].mw = "requireModerator"
        /\ reqs[r].row /= Undefined
        /\ reqs[r].row.isActive /\ reqs[r].row.isBanned /\ reqs[r].row.role = "user"
        /\ reqs[r].out.message = "Account banned"

\* C11: a toggle whose insert loses the race for its pair (its select saw no row,
\* another toggle has inserted the row since) surfaces no error, answers the
\* current membership, true, and leaves the table with the winner's single row.
C11_LostRaceConverges ==
    [][\A r \in ReqIds :
         (/\ ToggleFinish(r)
          /\ ~reqs[r].existing
          /\ Existing(reqs[r].kind, reqs[r].user, reqs[r].fanworkId))
         => /\ reqs'[r].status = 200 /\ reqs'[r].body = "true"
            /\ likes' = likes /\ bookmarks' = bookmarks]_vars

\* C12: banUser(U) changes only the ban fields of U's row: every fanwork, comment,
\* like and bookmark row is the same after the call, so a fanwork authored by U
\* keeps its isHidden value and getFanwork still returns it.
C12_BanLeavesContent ==
    [][\A u \in TokenUserIds, d \in ModerationBan :
         BanCall(u, d)
         => /\ fanworks' = fanworks /\ comments' = comments
            /\ likes' = likes /\ bookmarks' = bookmarks
            /\ \A f \in FanworkIds :
                  (fanworks[f] /= NoRow /\ fanworks[f].authorId = u)
                  => getFanwork(f)' = fanworks[f]
            /\ \A v \in UserIds :
                  /\ v /= u => users'[v] = users[v]
                  /\ users'[v].role = users[v].role
                  /\ users'[v].isActive = users[v].isActive
                  /\ users'[v].ageVerified = users[v].ageVerified]_vars

C12_Witness ==
    /\ hist.op = "banUser"
    /\ hist.returns /= Undefined
    /\ hist.returns.isBanned
    /\ \E f \in FanworkIds :
          /\ getFanwork(f) /= Undefined
          /\ getFanwork(f).authorId = hist.target
          /\ ~getFanwork(f).isHidden
          /\ \E c \in comments : c.fanworkId = f /\ c.userId = hist.target

\* the ordering user < moderator < admin and the rank each role gate requires
Rank(role) == CASE role = "user" -> 1 [] role = "moderator" -> 2 [] role = "admin" -> 3
Required(mw) == IF mw = "requireAdmin" THEN 3 ELSE 2
RoleGated == {r \in GatedReqs : reqs[r].mw \in {"requireModerator", "requireAdmin"}}

\* C13: requireModerator and requireAdmin call next() exactly for the callers
\* whose credential resolves to an active, non-banned account of at least the
\* required rank in user < moderator < admin; an active caller below the rank
\* gets 403 and next() is not called.
C13_RoleGateFollowsRank ==
    \A r \in RoleGated :
        LET row == reqs[r].row
            out == reqs[r].out
            resolved == row /= Undefined /\ row.isActive IN
        /\ out.next <=> (/\ resolved
                         /\ ~row.isBanned
                         /\ Rank(row.role) >= Required(reqs[r].mw))
        /\ (resolved /\ Rank(row.role) < Required(reqs[r].mw))
           => out.status = 403 /\ ~out.next

C13_Witness ==
    \E r \in RoleGated :
        /\ reqs[r].mw = "requireAdmin"
        /\ reqs[r].row /= Undefined
        /\ reqs[r].row.isActive /\ ~reqs[r].row.isBanned
        /\ reqs[r].row.role = "moderator"
        /\ reqs[r].out.status = 403 /\ ~reqs[r].out.next

AuthenticatedReqs == {r \in ReqIds : reqs[r].pc = "authenticated"}

\* C14: authenticateToken sets req.user and calls next() if and only if a bearer
\* token is present, it verifies, and the user it names exists and is active;
\* otherwise it answers 401, does not call next() and leaves req.user unset.
C14_AuthenticatesIffValidActive ==
    \A r \in AuthenticatedReqs :
        LET token == HeaderToken(reqs[r].header)
            row == reqs[r].row
            out == reqs[r].out
            valid == /\ token /= NoToken
                     /\ verifyToken(token) /= Undefined
                     /\ row /= Undefined
                     /\ row.isActive IN
        /\ out.next <=> valid
        /\ out.next => out.user = verifyToken(token).userId
        /\ ~out.next => out.status = 401 /\ out.user = NullId

C14_Witness ==
    \E r \in AuthenticatedReqs :
        /\ reqs[r].row /= Undefined
        /\ ~reqs[r].row.isActive
        /\ reqs[r].out.status = 401 /\ ~reqs[r].out.next

StoredReports == {i \in DOMAIN reports : reports[i] /= NoRow}

C18_CreateReportLeavesTarget ==
    [][\A i \in DOMAIN reports, d \in ReportInputs :
         createReport(i, d)
         => /\ fanworks' = fanworks /\ users' = users /\ comments' = comments
            /\ likes' = likes /\ bookmarks' = bookmarks
            /\ reports[i] = NoRow
            /\ \A j \in DOMAIN reports : j /= i => reports'[j] = reports[j]]_vars

C18_Witness ==
    \E f \in FanworkIds :
        /\ Cardinality({i \in StoredReports : reports[i].fanworkId = f}) >= 2
        /\ ~fanworks[f].isReported
        /\ fanworks[f].reportCount = 0

Targets(row) ==
    {t \in {"fanworkId", "commentId", "userId"} : row[t] /= NullId}

\* C19: createReport inserts no row when the reason is empty or no target is
\* given: every stored report has a reason and references exactly one of
\* fanworkId, commentId, userId.
C19_StoredReportsAreValid ==
    \A i \in StoredReports :
        /\ reports[i].reason /= ""
        /\ Cardinality(Targets(reports[i])) = 1

ModerationOps == {"updateReport", "banUser", "unbanUser", "hideFanwork"}

Satisfies(f, filters) ==
    LET row == fanworks[f] IN
    /\ Len(filters.type) = 0 \/ InArray(row.type, filters.type)
    /\ Len(filters.rating) = 0 \/ InArray(row.rating, filters.rating)
    /\ Len(filters.tags) = 0
       \/ \E k \in 1..Len(filters.tags) : filters.tags[k] \in getFanworkTags(f)
    /\ Len(filters.search) = 0
       \/ ILike(row.title, filters.search) \/ ILike(row.description, filters.search)
    /\ Len(filters.authorId) = 0 \/ row.authorId = parseInt(filters.authorId)

\* C20: getFanworks returns exactly the fanworks that satisfy every supplied
\* filter (type, rating, tags, search over title or description, author), newest
\* first, cut by offset and limit.
C20_ListAppliesEveryFilter ==
    hist /= NoHist =>
        hist.result =
            Page(OrderByCreatedAtDesc({f \in FanworkIds :
                    fanworks[f] /= NoRow /\ Satisfies(f, hist.filters)}),
                 hist.filters.limit, hist.filters.offset)

\* C21: concurrent getOrCreateTag calls for one new name leave exactly one tag
\* row of that name, and every call, the one whose insert the unique key
\* rejected included, returns that row instead of failing.
C21_LoserReturnsWinnersRow ==
    /\ \A t1, t2 \in tags : t1.name = t2.name => t1 = t2
    /\ \A r \in ReqIds :
          (reqs[r].pc = "done" /\ reqs[r].op = "getOrCreateTag")
          => /\ reqs[r].returns \in tags
             /\ reqs[r].returns.name = reqs[r].name

\* C22: after deleteFanwork(id) no fanwork_tags, likes, comments or bookmarks row
\* and no report references id, and the rows that belong to other fanworks (the
\* other fanworks, their links, likes, comments, bookmarks and reports) are the
\* same as before the call.
C22_DeleteCascadesOnlyOwnRows ==
    [][(hist' /= hist /\ hist'.op = "deleteFanwork")
       => LET id == hist'.target IN
          /\ id \in DOMAIN fanworks => fanworks'[id] = NoRow
          /\ Surviving(fanworkTags', id) = fanworkTags'
          /\ Surviving(likes', id) = likes'
          /\ Surviving(comments', id) = comments'
          /\ Surviving(bookmarks', id) = bookmarks'
          /\ \A i \in DOMAIN reports :
                reports'[i] /= NoRow => reports'[i].fanworkId /= id
          /\ \A f \in DOMAIN fanworks : f /= id => fanworks'[f] = fanworks[f]
          /\ Surviving(fanworkTags', id) = Surviving(fanworkTags, id)
          /\ Surviving(likes', id) = Surviving(likes, id)
          /\ Surviving(comments', id) = Surviving(comments, id)
          /\ Surviving(bookmarks', id) = Surviving(bookmarks, id)
          /\ \A i \in DOMAIN reports :
                (reports[i] /= NoRow /\ reports[i].fanworkId \notin {NullId, id})
                => reports'[i] = reports[i]]_vars

\* C23: no two users share an email or a username, and a registration that
\* finishes while its email or username is stored answers 400 and leaves the users
\* table as it was, also when its own existence checks found nothing.
C23_DuplicateRegistrationIs400 ==
    [][/\ \A u, v \in DOMAIN users :
             (u /= v /\ users'[u] /= NoRow /\ users'[v] /= NoRow)
             => /\ users'[u].email /= users'[v].email
                /\ users'[u].username /= users'[v].username
       /\ \A r \in ReqIds :
             (/\ reqs[r].pc \in {"emailChecked", "usernameChecked"}
              /\ reqs'[r].pc = "done"
              /\ \/ getUserByEmail(reqs[r].body.email)
                 \/ getUserByUsername(reqs[r].body.username))
             => reqs'[r].status = 400 /\ users' = users]_vars

AgeGated == {r \in GatedReqs : reqs[r].mw = "requireAgeVerification"}

\* C24: for a caller whose credential resolves to an active, non-banned account,
\* requireAgeVerification answers 403 without calling next() when ageVerified is
\* false and calls next() when it is true, whatever the role.
C24_AgeGateFollowsVerification ==
    \A r \in AgeGated :
        LET row == reqs[r].row
            out == reqs[r].out IN
        (row /= Undefined /\ row.isActive /\ ~row.isBanned)
        => /\ ~row.ageVerified => (out.status = 403 /\ ~out.next)
           /\ row.ageVerified => (out.next /\ out.user = verifyToken(HeaderToken(reqs[r].header)).userId)

C24_Witness ==
    \E r \in AgeGated :
        /\ reqs[r].row /= Undefined
        /\ reqs[r].row.isActive /\ ~reqs[r].row.isBanned
        /\ ~reqs[r].row.ageVerified
        /\ reqs[r].row.role = "admin"
        /\ reqs[r].out.status = 403 /\ ~reqs[r].out.next

BanFields == {"isBanned", "banReason", "bannedBy", "bannedAt"}
HideFields == {"isHidden", "moderationReason", "moderatedBy", "moderatedAt"}

\* the fields of a row outside a set of fields
Outside(row, fields) == [k \in (DOMAIN row) \ fields |-> row[k]]

\* C25: unbanUser(U) leaves U with isBanned false and banReason, bannedBy and
\* bannedAt null, unhideFanwork(F) leaves F with isHidden false and
\* moderationReason, moderatedBy and moderatedAt null, and the four calls ban,
\* unban, hide and unhide change no other field of the row and no other row, so a
\* ban followed by an unban (a hide by an unhide) restores the row.
C25_UnbanAndUnhideRestore ==
    [][hist' /= hist
       => LET op == hist'.op
              t == hist'.target IN
          /\ \A u \in UserIds :
                IF u = t /\ op \in {"banUser", "unbanUser"}
                THEN /\ Outside(users'[u], BanFields) = Outside(users[u], BanFields)
                     /\ op = "unbanUser"
                        => /\ ~users'[u].isBanned
                           /\ users'[u].banReason = NULL
                           /\ users'[u].bannedBy = NullId
                           /\ users'[u].bannedAt = NullId
                           /\ hist'.returns = users'[u]
                ELSE users'[u] = users[u]
          /\ \A f \in FanworkIds :
                IF f = t /\ op \in {"hideFanwork", "unhideFanwork"}
                THEN /\ Outside(fanworks'[f], HideFields)
                          = Outside(fanworks[f], HideFields)
                     /\ op = "unhideFanwork"
                        => /\ ~fanworks'[f].isHidden
                           /\ fanworks'[f].moderationReason = NULL
                           /\ fanworks'[f].moderatedBy = NullId
                           /\ fanworks'[f].moderatedAt = NullId
                           /\ hist'.returns = fanworks'[f]
                ELSE fanworks'[f] = fanworks[f]]_vars

\* a moderator who was banned is back as the account was before the ban, with
\* the fanwork still hidden
C25_Witness ==
    /\ hist.op = "unbanUser"
    /\ hist.returns /= Undefined
    /\ hist.returns \in RestoreUsers
    /\ hist.returns.role = "moderator" /\ hist.returns.ageVerified
    /\ users[hist.target] = hist.returns
    /\ \E f \in FanworkIds : fanworks[f].isHidden

\* the rows of a table that belong to other (user, fanwork) pairs
OtherPairs(rows, userId, fanworkId) == rows \ Matching(rows, userId, fanworkId)

\* C26: a toggleLike(U, I) that completes changes getFanworkCounts(I).likes by +1
\* when it returns true and by -1 when it returns false, and leaves I's comments
\* and bookmarks counts, the like and bookmark rows of every other pair and the
\* counts of every other fanwork as they were; the same for toggleBookmark and
\* the bookmarks count.
C26_ToggleMovesOneCountByOne ==
    [][\A r \in ReqIds :
         (reqs[r].pc = "selected" /\ reqs'[r].pc = "done" /\ reqs'[r].status = 200)
         => LET q == reqs[r]
                before == getFanworkCounts(q.fanworkId)
                after == getFanworkCounts(q.fanworkId)'
                step == IF reqs'[r].body = "true" THEN 1 ELSE -1 IN
            /\ after.likes = before.likes + (IF q.kind = "like" THEN step ELSE 0)
            /\ after.bookmarks
                 = before.bookmarks + (IF q.kind = "bookmark" THEN step ELSE 0)
            /\ after.comments = before.comments
            /\ OtherPairs(likes', q.user, q.fanworkId)
                 = OtherPairs(likes, q.user, q.fanworkId)
            /\ OtherPairs(bookmarks', q.user, q.fanworkId)
                 = OtherPairs(bookmarks, q.user, q.fanworkId)
            /\ \A g \in PathFanworkIds \ {q.fanworkId} :
                  getFanworkCounts(g)' = getFanworkCounts(g)]_vars

\* the fanworks, their links, likes, comments, bookmarks and reports
Content == <<fanworks, fanworkTags, likes, comments, bookmarks, reports>>

\* C27: a PUT or DELETE on /api/fanworks/:id by a user who is not the author of
\* the fanwork is answered 403 and one for an absent id 404, both changing
\* nothing; a fanwork row and its dependents change only in the write of a
\* request by the author of that fanwork, also when the fanwork is deleted by
\* another request between a handler's ownership check and its write.
C27_OnlyAuthorEditsOrDeletes ==
    [][/\ \A r \in ReqIds :
             (reqs[r] = Idle /\ reqs'[r] /= Idle)
             => LET q == reqs'[r]
                    row == getFanwork(q.fanworkId) IN
                /\ Content' = Content
                /\ row = Undefined => (q.pc = "done" /\ q.status = 404)
                /\ (row /= Undefined /\ row.authorId /= q.user)
                   => (q.pc = "done" /\ q.status = 403)
       /\ Content' /= Content
          => \E r \in ReqIds :
                /\ reqs[r].pc = "owned" /\ reqs'[r].pc = "done"
                /\ getFanwork(reqs[r].fanworkId) /= Undefined
                /\ getFanwork(reqs[r].fanworkId).authorId = reqs[r].user
                /\ \A f \in DOMAIN fanworks :
                      f /= reqs[r].fanworkId => fanworks'[f] = fanworks[f]
                /\ Surviving(likes', reqs[r].fanworkId)
                     = Surviving(likes, reqs[r].fanworkId)
                /\ Surviving(comments', reqs[r].fanworkId)
                     = Surviving(comments, reqs[r].fanworkId)
                /\ Surviving(bookmarks', reqs[r].fanworkId)
                     = Surviving(bookmarks, reqs[r].fanworkId)]_vars

\* two DELETE requests of the author were both answered 204: both passed the
\* ownership check before either wrote, so the second wrote after the fanwork
\* was gone
C27_Witness ==
    \E r1, r2 \in ReqIds :
        /\ r1 /= r2
        /\ reqs[r1].pc = "done" /\ reqs[r1].op = "DELETE" /\ reqs[r1].status = 204
        /\ reqs[r2].pc = "done" /\ reqs[r2].op = "DELETE" /\ reqs[r2].status = 204
        /\ reqs[r1].fanworkId = reqs[r2].fanworkId
        /\ getFanwork(reqs[r1].fanworkId) = Undefined

\* C28: deleteComment(id, userId) removes the comment of that id when userId is
\* its author and removes nothing when userId is another user or no comment has
\* the id; every other comment is the same after the call.
C28_DeleteCommentOnlyByAuthor ==
    [][(hist' /= hist /\ hist'.op = "deleteComment")
       => LET id == hist'.target
              userId == hist'.data.userId IN
          /\ comments' \subseteq comments
          /\ \A c \in comments :
                c \in comments' <=> ~(c.id = id /\ c.userId = userId)]_vars

\* a call by a user who is not the author left the comment in place
C28_Witness ==
    /\ hist.op = "deleteComment"
    /\ \E c \in comments : c.id = hist.target /\ c.userId /= hist.data.userId
    /\ \E c \in comments : c.id /= hist.target

\* C29: requireModerator and requireAdmin decide on the user row as it is in the
\* store when the request runs, not on the token: a request of a user who is
\* banned or below the required rank at that moment does not pass although the
\* token is valid, and a request of an active, unbanned user of sufficient rank
\* passes, whatever bans, unbans and role changes came before.
C29_GateFollowsStoreAtRequestTime ==
    [][\A r \in ReqIds :
         (/\ reqs[r].pc = "idle" /\ reqs'[r].pc = "gated"
          /\ reqs'[r].mw \in {"requireModerator", "requireAdmin"}
          /\ verifyToken(HeaderToken(reqs'[r].header)) /= Undefined)
         => LET row == getUserById(verifyToken(HeaderToken(reqs'[r].header)).userId)
                out == reqs'[r].out
                mw == reqs'[r].mw IN
            /\ reqs'[r].row = row
            /\ row = Undefined => ~out.next
            /\ row /= Undefined
               => /\ (row.isBanned \/ Rank(row.role) < Required(mw)) => ~out.next
                  /\ (/\ row.isActive /\ ~row.isBanned
                      /\ Rank(row.role) >= Required(mw)) => out.next]_vars

\* a user was made moderator and then banned; the next request with the same
\* token is refused
C29_Witness ==
    \E r \in GatedReqs :
        /\ reqs[r].mw = "requireModerator"
        /\ reqs[r].row /= Undefined
        /\ reqs[r].row = getUserById(verifyToken(HeaderToken(reqs[r].header)).userId)
        /\ reqs[r].row.role = "moderator" /\ reqs[r].row.isBanned
        /\ reqs[r].row.isActive
        /\ reqs[r].out.status = 403 /\ ~reqs[r].out.next

\* C30: the triple a getFanworkCounts call returns is the triple of row counts of
\* one store state that existed between the call's first query and its return,
\* also when toggles and comment calls on the fanwork run in between.
C30_CountsAreOneSnapshot ==
    \A r \in ReqIds :
        (reqs[r].pc = "done" /\ reqs[r].op = "getFanworkCounts")
        => reqs[r].result \in hist.seen
====
